---- MODULE Spec2Model ----
(***************************************************************************)
(* State-machine model of src/index.js: an Express backend over the        *)
(* Firebase Account Directory (admin.auth()) and the Firestore "users"     *)
(* collection (db), with the Paystack webhook that credits balances.       *)
(*                                                                         *)
(* Numbers.  A balance is a JavaScript number, an IEEE-754 binary64 value. *)
(* It is modelled exactly: a sign and a magnitude, the magnitude being an  *)
(* integer multiple of 2^-FracBits held in three limbs of 24 bits.         *)
(* NumAdd, NumDiv and NumMul compute the exact result and round it once to *)
(* Precision significant bits, ties to even, as +, / and * do.  The        *)
(* representation covers magnitudes below 65536 whose last bit is no finer *)
(* than 2^-60: k/100 for integers k, their sums and their products by 100. *)
(* The amount of /recharge is such a number.  The amount of a notification *)
(* is a count of kobo: an integer, which stays a TLA+ integer until it is  *)
(* divided.                                                                *)
(*                                                                         *)
(* Concurrency.  Every await of a handler is a scheduling point.  Signup   *)
(* and the webhook run in slots with a program counter.  Signin and        *)
(* recharge await twice; the one of them that is between its two awaits is *)
(* held in call (they write neither store, so one at a time is enough).    *)
(* Activity and GET /user/:uid make one store call and are one action.     *)
(*                                                                         *)
(* Remote calls.  Every call to the directory, the store or the gateway    *)
(* can reject for a reason of the service itself; the steps take that      *)
(* outcome as the input ok.  A transaction is validated at its commit      *)
(* (Invalidate, CommitConflict).  Where the store locks the documents a    *)
(* transaction has read instead, a concurrent write waits for the commit:  *)
(* those behaviours are the ones here in which the write comes after it.   *)
(*                                                                         *)
(* Specifications.  Spec runs every route, the webhook receiving the       *)
(* notifications of paid recharges.  SpecWebhook runs the routes that      *)
(* write (signup, webhook, activity) with every class of webhook body and  *)
(* with redelivery.  SpecRecharge runs signup, recharge with whole and     *)
(* fractional amounts, and the webhook.                                    *)
(* SpecC2, SpecC16 and SpecAccounts are the scenarios of single claims.    *)
(***************************************************************************)
EXTENDS Integers, Sequences, FiniteSets

\* ---------------------------------------------------------------- bounds
MaxSignup == 2      \* signup requests per behaviour
MaxHook == 2        \* webhook deliveries per behaviour
MaxActs == 1        \* POST /activity requests per behaviour
MaxTime == 2        \* values new Date() takes in /activity
ActRepeats == 2     \* POST /activity requests in the accounts scenario

\* ---------------------------------------------------------------- library
\* Attempts of one runTransaction before it rejects: line 130 passes no
\* options, so the default of the Firestore library applies.
MaxAttempts == 5

\* ---------------------------------------------------------------- numbers
Base == 16777216    \* 2^24, the limb base
FracBits == 60      \* a magnitude <<a, b, c>> is (a*Base^2 + b*Base + c) / 2^60
Precision == 53     \* significant bits of a binary64 value

RECURSIVE Pow2(_)
Pow2(k) == IF k = 0 THEN 1 ELSE 2 * Pow2(k - 1)

RECURSIVE Bits(_)
Bits(n) == IF n = 0 THEN 0 ELSE 1 + Bits(n \div 2)

BitLen(a) ==
    IF a[1] > 0 THEN 48 + Bits(a[1])
    ELSE IF a[2] > 0 THEN 24 + Bits(a[2]) ELSE Bits(a[3])

MagAdd(a, b) ==
    LET s3 == a[3] + b[3]
        s2 == a[2] + b[2] + s3 \div Base
        s1 == a[1] + b[1] + s2 \div Base
    IN <<s1, s2 % Base, s3 % Base>>

\* a - b for a >= b.
MagSub(a, b) ==
    LET d3 == a[3] - b[3]
        b3 == IF d3 < 0 THEN 1 ELSE 0
        d2 == a[2] - b[2] - b3
        b2 == IF d2 < 0 THEN 1 ELSE 0
    IN <<a[1] - b[1] - b2, d2 + b2 * Base, d3 + b3 * Base>>

MagLess(a, b) ==
    \/ a[1] < b[1]
    \/ a[1] = b[1] /\ a[2] < b[2]
    \/ a[1] = b[1] /\ a[2] = b[2] /\ a[3] < b[3]

\* Quotient and remainder of a by the small integer d.
MagDiv(a, d) ==
    LET t2 == (a[1] % d) * Base + a[2]
        t3 == (t2 % d) * Base + a[3]
    IN [q |-> <<a[1] \div d, t2 \div d, t3 \div d>>, r |-> t3 % d]

\* Round to Precision significant bits, ties to even; sticky tells that the
\* exact value lies above a.
Round(a, sticky) ==
    LET r == BitLen(a) - Precision IN
    IF r <= 0 THEN a
    ELSE LET u == Pow2(r)
             rem == a[3] % u
             down == <<a[1], a[2], a[3] - rem>>
             odd == (a[3] \div u) % 2 = 1
             up == \/ 2 * rem > u
                   \/ 2 * rem = u /\ (sticky \/ odd)
         IN IF up THEN MagAdd(down, <<0, 0, u>>) ELSE down

Zero == <<0, 0, 0>>
NaN == [nan |-> TRUE, neg |-> FALSE, mag |-> Zero]
Double(neg, mag) == [nan |-> FALSE, neg |-> neg /\ mag # Zero, mag |-> mag]

\* The JS number of the integer n.
Num(n) ==
    Double(n < 0, <<(IF n < 0 THEN -n ELSE n) * Pow2(FracBits - 48), 0, 0>>)

\* x + y
NumAdd(x, y) ==
    IF x.nan \/ y.nan THEN NaN
    ELSE IF x.neg = y.neg
    THEN Double(x.neg, Round(MagAdd(x.mag, y.mag), FALSE))
    ELSE IF MagLess(x.mag, y.mag)
    THEN Double(y.neg, Round(MagSub(y.mag, x.mag), FALSE))
    ELSE Double(x.neg, Round(MagSub(x.mag, y.mag), FALSE))

\* x / d for an integer x and a small integer d.
NumDiv(x, d) ==
    IF x.nan THEN NaN
    ELSE LET qr == MagDiv(x.mag, d)
         IN Double(x.neg, Round(qr.q, qr.r # 0))

\* a times the small integer d.
MagMul(a, d) ==
    LET m3 == a[3] * d
        m2 == a[2] * d + m3 \div Base
        m1 == a[1] * d + m2 \div Base
    IN <<m1, m2 % Base, m3 % Base>>

\* x * d for a small positive integer d.
NumMul(x, d) ==
    IF x.nan THEN NaN
    ELSE Double(x.neg, Round(MagMul(x.mag, d), FALSE))

\* Whether x is an integer, and the integer it is.
IsInteger(x) ==
    /\ ~x.nan
    /\ x.mag[2] = 0 /\ x.mag[3] = 0
    /\ x.mag[1] % Pow2(FracBits - 48) = 0
IntOf(x) ==
    (IF x.neg THEN -1 ELSE 1) * (x.mag[1] \div Pow2(FracBits - 48))

\* ---------------------------------------------------------------- domains
Emails == {"a@x.com", "b@x.com"}
NoEmail == "undefined"
Uids == 1..Cardinality(Emails)
NoUid == 0
Amounts == {-100, 200}
SmallAmounts == {10, 70}
Labels == {"login"}
Times == 1..MaxTime
SignupTime == 1
SuccessEvent == "charge.success"
Events == {SuccessEvent, "charge.failed", "undefined"}
Pending == 0

SignupSlots == 1..MaxSignup
HookSlots == 1..MaxHook

VARIABLES
    dir,          \* Account Directory: email -> uid, NoUid when unregistered
    users,        \* Firestore collection "users": uid -> document
    nextUid,      \* the uid the directory assigns next
    signups,      \* signup handlers
    hooks,        \* webhook handlers
    acts,         \* number of /activity requests served
    call,         \* the signin or recharge handler between its two awaits
    resp,         \* the latest response of /activity, /signin, /recharge, /user
    startBalance  \* history: balance of each record when the scenario began

vars == <<dir, users, nextUid, signups, hooks, acts, call, resp, startBalance>>

\* ---------------------------------------------------------------- helpers
NoDoc == [exists |-> FALSE]

\* Faulty variant: the link is built before the uid is known.
generateReferralLinkNoUid(uid) == <<"https://vest.com/ref/", NoUid>>
generateReferralLink(uid) == <<"https://vest.com/ref/", uid>>

\* userData of /signup; referredBy || null maps an absent referrer to NoUid.
UserData(uid, email, referredBy, t) ==
    [exists |-> TRUE,
     uid |-> uid,
     email |-> email,
     referralLink |-> generateReferralLink(uid),
     referredBy |-> referredBy,
     balance |-> Num(0),
     teamCount |-> 0,
     dailyActivities |-> <<>>,
     createdAt |-> t]

\* Faulty variant: a miss falls back to a registered account.
GetUserByEmailFallback(email) ==
    IF email \in Emails /\ dir[email] # NoUid THEN dir[email]
    ELSE IF \E e \in Emails : dir[e] # NoUid
         THEN CHOOSE u \in Uids : \E e \in Emails : dir[e] = u
         ELSE NoUid
\* admin.auth().getUserByEmail(email): the uid, or NoUid when it rejects.
GetUserByEmail(email) ==
    IF email \in Emails THEN dir[email] ELSE NoUid

\* Faulty variant: every named event counts as a success.
IsSuccessAnyCharge(event) == event # "undefined"
\* event === "charge.success"
IsSuccess(event) == event = SuccessEvent

\* doc.data().balance || 0 : 0 and NaN are falsy.
CurrentBalance(doc) ==
    IF doc.balance.nan \/ doc.balance.mag = Zero THEN Num(0) ELSE doc.balance

\* Faulty variant: the amount is credited in kobo.
DivBy100Forgot(req) == IF req.hasAmount THEN Num(req.amount) ELSE NaN
\* amount / 100, amount the JS value of data.amount (undefined when absent).
DivBy100(req) == IF req.hasAmount THEN NumDiv(Num(req.amount), 100) ELSE NaN

\* currentBalance + amount / 100
NewBalance(doc, req) == NumAdd(CurrentBalance(doc), DivBy100(req))

\* FieldValue.arrayUnion(entry): appends entry unless the array holds it.
ArrayUnion(arr, entry) ==
    IF \E i \in 1..Len(arr) : arr[i] = entry THEN arr ELSE Append(arr, entry)

\* The records kept for manual reconciliation of a failed credit: the catch
\* block of the webhook only writes to the console.
ReconciliationRecords == {}

\* A write to users[uid] invalidates every transaction that has read it.
Invalidate(h, uid) ==
    [p \in HookSlots |->
        IF h[p].pc = "commit" /\ h[p].uid = uid
        THEN [h[p] EXCEPT !.dirty = TRUE] ELSE h[p]]

\* ---------------------------------------------------------------- requests
PayerA == "a@x.com"

NoBody ==
    [event |-> "undefined", hasData |-> FALSE, hasCustomer |-> FALSE,
     email |-> NoEmail, hasAmount |-> FALSE, amount |-> 0,
     evid |-> 0, sigValid |-> TRUE]

FullBody(ev, e, a) ==
    [NoBody EXCEPT !.event = ev, !.hasData = TRUE, !.hasCustomer = TRUE,
                   !.email = e, !.hasAmount = TRUE, !.amount = a]

\* Bodies of POST /paystack/webhook, {event, data: {customer: {email}, amount}},
\* with whether the signature header verifies: every success notification of
\* the payers and amounts, the malformed success notifications (no amount, no
\* customer, no data), a failed charge, a body without event, and a forged
\* success notification.
HookBodies ==
    {FullBody(SuccessEvent, e, a) : e \in Emails, a \in Amounts}
    \cup {[FullBody(SuccessEvent, PayerA, 0) EXCEPT !.hasAmount = FALSE],
          [NoBody EXCEPT !.event = SuccessEvent, !.hasData = TRUE],
          [NoBody EXCEPT !.event = SuccessEvent],
          FullBody("charge.failed", PayerA, 200),
          FullBody("undefined", PayerA, 200),
          [FullBody(SuccessEvent, PayerA, 200) EXCEPT !.sigValid = FALSE]}

\* Bodies of POST /signup, {email, referredBy?}.
SignupBodies ==
    {[email |-> "a@x.com", referredBy |-> NoUid],
     [email |-> "b@x.com", referredBy |-> 1]}

IdleHook ==
    [pc |-> "idle", req |-> NoBody, uid |-> NoUid, newBalance |-> Num(0),
     attempts |-> 0, dirty |-> FALSE, status |-> Pending,
     lookedUp |-> FALSE, committed |-> FALSE]

IdleSignup ==
    [pc |-> "idle", email |-> NoEmail, referredBy |-> NoUid, uid |-> NoUid,
     status |-> Pending]

IdleCall ==
    [op |-> "none", uid |-> NoUid, email |-> NoEmail, amount |-> Num(0)]

\* A response: its status, the user document of its body (signin, user) and
\* the {email, amount} the handler has posted to the gateway (recharge).
Answer(op, status) ==
    [op |-> op, status |-> status, user |-> NoDoc, email |-> NoEmail,
     kobo |-> Num(0)]

NoResp == Answer("none", Pending)

Init ==
    /\ dir = [e \in Emails |-> NoUid]
    /\ users = [u \in Uids |-> NoDoc]
    /\ nextUid = 1
    /\ signups = [s \in SignupSlots |-> IdleSignup]
    /\ hooks = [p \in HookSlots |-> IdleHook]
    /\ acts = 0
    /\ call = IdleCall
    /\ resp = NoResp
    /\ startBalance = [u \in Uids |-> Num(0)]

\* ---------------------------------------------------------------- /signup
\* Lines 51-54 and 71-73: the request arrives and createUser is awaited.  It
\* rejects when the email is taken or the directory refuses or fails
\* (ok = FALSE: a short password, a service failure); the catch answers 400
\* and nothing has been written.
SignupCreate(s, body, ok) ==
    LET email == body.email
        referredBy == body.referredBy IN
    /\ signups[s].pc = "idle"
    /\ \A r \in SignupSlots : r < s => signups[r].pc # "idle"
    /\ IF dir[email] # NoUid \/ ~ok
       THEN /\ signups' = [signups EXCEPT ![s] =
                   [pc |-> "done", email |-> email, referredBy |-> referredBy,
                    uid |-> NoUid, status |-> 400]]
            /\ UNCHANGED <<dir, nextUid>>
       ELSE /\ dir' = [dir EXCEPT ![email] = nextUid]
            /\ nextUid' = nextUid + 1
            /\ signups' = [signups EXCEPT ![s] =
                   [pc |-> "set", email |-> email, referredBy |-> referredBy,
                    uid |-> nextUid, status |-> Pending]]
    /\ UNCHANGED <<users, hooks, acts, call, resp, startBalance>>

\* Lines 55-73: userData is built and set on users/<uid>, then 201.  When
\* the store rejects the write (ok = FALSE) the catch answers 400 and the
\* directory entry stays.
SignupSet(s, ok) ==
    /\ signups[s].pc = "set"
    /\ IF ok
       THEN /\ users' = [users EXCEPT ![signups[s].uid] =
                  UserData(signups[s].uid, signups[s].email,
                           signups[s].referredBy, SignupTime)]
            /\ hooks' = Invalidate(hooks, signups[s].uid)
            /\ signups' = [signups EXCEPT ![s].pc = "done", ![s].status = 201]
       ELSE /\ signups' = [signups EXCEPT ![s].pc = "done", ![s].status = 400]
            /\ UNCHANGED <<users, hooks>>
    /\ UNCHANGED <<dir, nextUid, acts, call, resp, startBalance>>

\* ---------------------------------------------------------------- webhook
\* Lines 114-124: the body is destructured and, for a success event,
\* data.customer is read outside the try block.  A TypeError there rejects the
\* handler's promise: the request is left unanswered, or the framework's error
\* handler answers 500.
\* Faulty variant: a success notification is acknowledged before it is
\* processed.
ReceiveAckFirst(body, thrown) ==
    IF ~IsSuccess(body.event)
    THEN [IdleHook EXCEPT !.pc = "respond", !.req = body]
    ELSE IF ~body.hasData \/ ~body.hasCustomer
    THEN [IdleHook EXCEPT !.pc = "threw", !.req = body, !.status = thrown]
    ELSE [IdleHook EXCEPT !.pc = "lookup", !.req = body, !.status = 200]
Receive(body, thrown) ==
    IF ~IsSuccess(body.event)
    THEN [IdleHook EXCEPT !.pc = "respond", !.req = body]
    ELSE IF ~body.hasData \/ ~body.hasCustomer
    THEN [IdleHook EXCEPT !.pc = "threw", !.req = body, !.status = thrown]
    ELSE [IdleHook EXCEPT !.pc = "lookup", !.req = body]

\* The gateway delivers a notification for the first time: its event id is new.
HookArrive(p, body, thrown) ==
    /\ hooks[p].pc = "idle"
    /\ \A q \in HookSlots : q < p => hooks[q].pc # "idle"
    /\ hooks' = [hooks EXCEPT ![p] = Receive([body EXCEPT !.evid = p], thrown)]
    /\ UNCHANGED <<dir, users, nextUid, signups, acts, call, resp, startBalance>>

\* The gateway delivers the notification of handler q again (at-least-once
\* delivery: a retry after a lost or late response), same body and event id.
HookRedeliver(p, q, thrown) ==
    /\ hooks[p].pc = "idle"
    /\ \A r \in HookSlots : r < p => hooks[r].pc # "idle"
    /\ q < p
    /\ hooks' = [hooks EXCEPT ![p] = Receive(hooks[q].req, thrown)]
    /\ UNCHANGED <<dir, users, nextUid, signups, acts, call, resp, startBalance>>

\* Lines 127-128: getUserByEmail.  It rejects when the email has no entry or
\* the directory fails (ok = FALSE); the rejection is caught at line 141 and
\* the handler goes on to line 148.
HookLookup(p, ok) ==
    /\ hooks[p].pc = "lookup"
    /\ LET uid == GetUserByEmail(hooks[p].req.email)
       IN hooks' = [hooks EXCEPT ![p] =
            IF uid = NoUid \/ ~ok
            THEN [@ EXCEPT !.pc = "respond", !.lookedUp = TRUE]
            ELSE [@ EXCEPT !.pc = "read", !.lookedUp = TRUE, !.uid = uid]]
    /\ UNCHANGED <<dir, users, nextUid, signups, acts, call, resp, startBalance>>

\* Faulty variant: a missing document reads as a fresh record.
ReadDocOrDefault(uid) ==
    IF users[uid].exists THEN users[uid]
    ELSE UserData(uid, NoEmail, NoUid, SignupTime)
\* t.get(userRef): the snapshot of users/<uid>.
ReadDoc(uid) == users[uid]

\* Lines 131-138: t.get, the exists check and the new balance.  The Error of
\* line 133 and a rejection of t.get (ok = FALSE) are not retried: they
\* reject runTransaction and are caught at line 141.
HookRead(p, ok) ==
    /\ hooks[p].pc = "read"
    /\ LET doc == ReadDoc(hooks[p].uid)
       IN hooks' = [hooks EXCEPT ![p] =
            IF ~ok \/ ~doc.exists
            THEN [@ EXCEPT !.pc = "respond"]
            ELSE [@ EXCEPT !.pc = "commit", !.dirty = FALSE,
                           !.newBalance = NewBalance(doc, hooks[p].req)]]
    /\ UNCHANGED <<dir, users, nextUid, signups, acts, call, resp, startBalance>>

\* The commit of runTransaction fails when the document was written since it
\* was read.
CommitConflict(p) == hooks[p].dirty

\* Faulty variant: the document is replaced, not updated.
TxSet(doc, newBalance) ==
    [UserData(doc.uid, doc.email, NoUid, doc.createdAt) EXCEPT !.balance = newBalance]
\* t.update(userRef, { balance: newBalance }): only the balance field changes.
TxUpdate(doc, newBalance) == [doc EXCEPT !.balance = newBalance]

\* Line 139: the commit.  A conflict runs the callback again until the
\* attempts are used up; then runTransaction rejects (caught at line 141).
\* A commit the store rejects for another reason (ok = FALSE) is not retried:
\* runTransaction rejects and nothing has been written.
HookCommit(p, ok) ==
    /\ hooks[p].pc = "commit"
    /\ IF ~ok
       THEN /\ hooks' = [hooks EXCEPT ![p].pc = "respond", ![p].attempts = @ + 1]
            /\ UNCHANGED users
       ELSE IF CommitConflict(p)
       THEN /\ hooks' = [hooks EXCEPT ![p] =
                 IF hooks[p].attempts + 1 >= MaxAttempts
                 THEN [@ EXCEPT !.pc = "respond", !.attempts = @ + 1]
                 ELSE [@ EXCEPT !.pc = "read", !.attempts = @ + 1]]
            /\ UNCHANGED users
       ELSE /\ users' = [users EXCEPT ![hooks[p].uid] =
                  TxUpdate(@, hooks[p].newBalance)]
            /\ hooks' = [Invalidate(hooks, hooks[p].uid) EXCEPT ![p] =
                 [hooks[p] EXCEPT !.pc = "respond", !.committed = TRUE]]
    /\ UNCHANGED <<dir, nextUid, signups, acts, call, resp, startBalance>>

\* Line 148: res.sendStatus(200).
HookRespond(p) ==
    /\ hooks[p].pc = "respond"
    /\ hooks' = [hooks EXCEPT ![p].pc = "done", ![p].status = 200]
    /\ UNCHANGED <<dir, users, nextUid, signups, acts, call, resp, startBalance>>

\* ---------------------------------------------------------------- /activity
\* Faulty variant: the write also resets balance.
ActivityUpdateSet(doc, entry) ==
    [doc EXCEPT !.dailyActivities = ArrayUnion(@, entry), !.balance = Num(0)]
\* The update of line 156: arrayUnion on dailyActivities of users/<uid>; it
\* rejects when the document does not exist (500).
ActivityUpdate(doc, entry) ==
    [doc EXCEPT !.dailyActivities = ArrayUnion(@, entry)]

\* Lines 152-166: one POST /activity.  The update rejects when the document
\* does not exist or the store fails (ok = FALSE), and the catch answers 500.
ActivityStep(uid, label, t, ok) ==
    /\ acts' = acts + 1
    /\ IF users[uid].exists /\ ok
       THEN /\ users' = [users EXCEPT ![uid] =
                  ActivityUpdate(@, [activity |-> label, timestamp |-> t])]
            /\ hooks' = Invalidate(hooks, uid)
            /\ resp' = Answer("activity", 200)
       ELSE /\ resp' = Answer("activity", 500)
            /\ UNCHANGED <<users, hooks>>
    /\ UNCHANGED <<dir, nextUid, signups, call, startBalance>>

Activity(uid, label, t, ok) ==
    /\ acts < MaxActs
    /\ ActivityStep(uid, label, t, ok)

\* ---------------------------------------------------------------- /signin
\* Lines 78-80: getUserByEmail is awaited; its rejection (no entry, or a
\* failure of the directory, ok = FALSE) is caught at line 83 and answered 400.
SigninLookup(email, ok) ==
    /\ call.op = "none"
    /\ LET uid == GetUserByEmail(email)
       IN IF uid = NoUid \/ ~ok
          THEN /\ resp' = Answer("signin", 400)
               /\ UNCHANGED call
          ELSE /\ call' = [IdleCall EXCEPT !.op = "signin", !.uid = uid]
               /\ UNCHANGED resp
    /\ UNCHANGED <<dir, users, nextUid, signups, hooks, acts, startBalance>>

\* Lines 81-85: the document of the uid is read as it is now and sent with
\* status 200 (data() of a missing document is undefined: the body has no
\* user); a read the store rejects (ok = FALSE) is answered 400.
SigninRead(ok) ==
    /\ call.op = "signin"
    /\ call' = IdleCall
    /\ resp' = IF ok
               THEN [Answer("signin", 200) EXCEPT !.user = users[call.uid]]
               ELSE Answer("signin", 400)
    /\ UNCHANGED <<dir, users, nextUid, signups, hooks, acts, startBalance>>

\* ---------------------------------------------------------------- /recharge
\* admin.auth().getUser(uid) resolves when the directory holds uid.
GetUser(uid) == \E e \in Emails : dir[e] = uid

\* req.body.amount of /recharge, in main units: the JSON numbers k/100 for
\* these counts k of kobo, 2 and 0.57.
RechargeKobo == {200, 57}
RechargeAmounts == {NumDiv(Num(k), 100) : k \in RechargeKobo}

\* amount * 100: main units to kobo, a product of two JS numbers.
MulBy100(amount) == NumMul(amount, 100)

\* Lines 90-96: getUser is awaited for the email of the payload; its
\* rejection (no entry, or a failure of the directory, ok = FALSE) is caught
\* at line 108 and answered 500, nothing being posted.
RechargeGetUser(uid, amount, ok) ==
    /\ call.op = "none"
    /\ IF GetUser(uid) /\ ok
       THEN /\ call' = [IdleCall EXCEPT
                          !.op = "recharge", !.uid = uid, !.amount = amount,
                          !.email = CHOOSE e \in Emails : dir[e] = uid]
            /\ UNCHANGED resp
       ELSE /\ resp' = Answer("recharge", 500)
            /\ UNCHANGED call
    /\ UNCHANGED <<dir, users, nextUid, signups, hooks, acts, startBalance>>

\* Lines 93-110: {email, amount: amount * 100} is posted to the gateway; its
\* answer is passed on with status 200, its failure is answered 500.
RechargePost(gatewayOk) ==
    /\ call.op = "recharge"
    /\ call' = IdleCall
    /\ resp' = [Answer("recharge", IF gatewayOk THEN 200 ELSE 500) EXCEPT
                  !.email = call.email, !.kobo = MulBy100(call.amount)]
    /\ UNCHANGED <<dir, users, nextUid, signups, hooks, acts, startBalance>>

\* ---------------------------------------------------------------- /user/:uid
\* Lines 169-178: the document is sent, or 404 when it does not exist; a
\* read the store rejects (ok = FALSE) is answered 500.
UserInfo(uid, ok) ==
    /\ resp' = IF ~ok THEN Answer("user", 500)
               ELSE IF users[uid].exists
               THEN [Answer("user", 200) EXCEPT !.user = users[uid]]
               ELSE Answer("user", 404)
    /\ UNCHANGED <<dir, users, nextUid, signups, hooks, acts, call, startBalance>>

\* ---------------------------------------------------------------- system
\* The recharges the gateway can charge: those it is asked a whole number of
\* kobo for.
WholeAmounts == {x \in RechargeAmounts : IsInteger(MulBy100(x))}

\* The notifications the gateway sends for the recharges it has charged.
PaidBodies ==
    {FullBody(SuccessEvent, e, IntOf(MulBy100(x))) :
        e \in Emails, x \in WholeAmounts}

\* Every route.  The recharges are those of WholeAmounts; the one activity
\* request carries the first timestamp (alone in its log, its value plays no
\* part).

Next ==
    \/ \E s \in SignupSlots, b \in SignupBodies, ok \in BOOLEAN :
          SignupCreate(s, b, ok)
    \/ \E s \in SignupSlots, ok \in BOOLEAN : SignupSet(s, ok)
    \/ \E p \in HookSlots, b \in PaidBodies : HookArrive(p, b, Pending)
    \/ \E p \in HookSlots, ok \in BOOLEAN : HookLookup(p, ok)
    \/ \E p \in HookSlots, ok \in BOOLEAN : HookRead(p, ok)
    \/ \E p \in HookSlots, ok \in BOOLEAN : HookCommit(p, ok)
    \/ \E p \in HookSlots : HookRespond(p)
    \/ \E u \in Uids, l \in Labels, ok \in BOOLEAN :
          Activity(u, l, 1, ok)
    \/ \E e \in Emails, ok \in BOOLEAN : SigninLookup(e, ok)
    \/ \E ok \in BOOLEAN : SigninRead(ok)
    \/ \E u \in Uids, x \in WholeAmounts, ok \in BOOLEAN :
          RechargeGetUser(u, x, ok)
    \/ \E gatewayOk \in BOOLEAN : RechargePost(gatewayOk)
    \/ \E u \in Uids, ok \in BOOLEAN : UserInfo(u, ok)

Spec == Init /\ [][Next]_vars

\* ------------------------------------------------- the routes that write
\* Signup, the webhook with every class of body and redelivery, and activity.
NextWebhook ==
    \/ \E s \in SignupSlots, b \in SignupBodies, ok \in BOOLEAN :
          SignupCreate(s, b, ok)
    \/ \E s \in SignupSlots, ok \in BOOLEAN : SignupSet(s, ok)
    \/ \E p \in HookSlots, b \in HookBodies, t \in {Pending, 500} : HookArrive(p, b, t)
    \/ \E p, q \in HookSlots, t \in {Pending, 500} : HookRedeliver(p, q, t)
    \/ \E p \in HookSlots, ok \in BOOLEAN : HookLookup(p, ok)
    \/ \E p \in HookSlots, ok \in BOOLEAN : HookRead(p, ok)
    \/ \E p \in HookSlots, ok \in BOOLEAN : HookCommit(p, ok)
    \/ \E p \in HookSlots : HookRespond(p)
    \/ \E u \in Uids, l \in Labels, t \in Times, ok \in BOOLEAN :
          Activity(u, l, t, ok)

SpecWebhook == Init /\ [][NextWebhook]_vars

\* ------------------------------------------------- recharge and its credit
\* Signup, /recharge with every amount, and the webhook receiving the
\* notifications of the recharges the gateway has charged.
NextRecharge ==
    \/ \E s \in SignupSlots, b \in SignupBodies, ok \in BOOLEAN :
          SignupCreate(s, b, ok)
    \/ \E s \in SignupSlots, ok \in BOOLEAN : SignupSet(s, ok)
    \/ \E u \in Uids, x \in RechargeAmounts, ok \in BOOLEAN :
          RechargeGetUser(u, x, ok)
    \/ \E gatewayOk \in BOOLEAN : RechargePost(gatewayOk)
    \/ \E p \in HookSlots, b \in PaidBodies : HookArrive(p, b, Pending)
    \/ \E p \in HookSlots, ok \in BOOLEAN : HookLookup(p, ok)
    \/ \E p \in HookSlots, ok \in BOOLEAN : HookRead(p, ok)
    \/ \E p \in HookSlots, ok \in BOOLEAN : HookCommit(p, ok)
    \/ \E p \in HookSlots : HookRespond(p)

SpecRecharge == Init /\ [][NextRecharge]_vars

\* ------------------------------------------------- two concurrent credits
\* The scenario of two notifications with distinct event ids for one user:
\* the account of PayerA exists with balance S and both requests have just
\* been received; only the two handlers run, and every remote call of theirs
\* resolves.
StartBalances == {Num(0), Num(2), Num(-1), NumDiv(Num(20), 100)}

CreditAmounts == Amounts \cup SmallAmounts

InitC2 ==
    \E S \in StartBalances, A \in CreditAmounts, B \in CreditAmounts :
        /\ dir = [e \in Emails |-> IF e = PayerA THEN 1 ELSE NoUid]
        /\ users = [u \in Uids |->
               IF u = 1
               THEN [UserData(1, PayerA, NoUid, SignupTime) EXCEPT !.balance = S]
               ELSE NoDoc]
        /\ nextUid = 2
        /\ signups = [s \in SignupSlots |->
               IF s = 1
               THEN [pc |-> "done", email |-> PayerA, referredBy |-> NoUid,
                     uid |-> 1, status |-> 201]
               ELSE IdleSignup]
        /\ hooks = [p \in HookSlots |->
               IF p = 1
               THEN Receive([FullBody(SuccessEvent, PayerA, A) EXCEPT !.evid = 1], Pending)
               ELSE IF p = 2
               THEN Receive([FullBody(SuccessEvent, PayerA, B) EXCEPT !.evid = 2], Pending)
               ELSE IdleHook]
        /\ acts = 0
        /\ call = IdleCall
        /\ resp = NoResp
        /\ startBalance = [u \in Uids |-> IF u = 1 THEN S ELSE Num(0)]

NextC2 ==
    \/ \E p \in HookSlots : HookLookup(p, TRUE)
    \/ \E p \in HookSlots : HookRead(p, TRUE)
    \/ \E p \in HookSlots : HookCommit(p, TRUE)
    \/ \E p \in HookSlots : HookRespond(p)

SpecC2 == InitC2 /\ [][NextC2]_vars

\* ------------------------------------------------- accounts and activity
\* Signups and repeated activity requests, without the webhook.
ActivityAgain(uid, label, t, ok) ==
    /\ acts < ActRepeats
    /\ ActivityStep(uid, label, t, ok)

NextAccounts ==
    \/ \E s \in SignupSlots, b \in SignupBodies, ok \in BOOLEAN :
          SignupCreate(s, b, ok)
    \/ \E s \in SignupSlots, ok \in BOOLEAN : SignupSet(s, ok)
    \/ \E u \in Uids, l \in Labels, t \in Times, ok \in BOOLEAN :
          ActivityAgain(u, l, t, ok)
    \/ \E u \in Uids, ok \in BOOLEAN : UserInfo(u, ok)

SpecAccounts == Init /\ [][NextAccounts]_vars

\* ------------------------------------------------- a credit and an activity
\* The account of PayerA exists with balance S and an empty activity log; a
\* charge.success notification for it has just been received and activity
\* requests arrive while it is handled; every remote call can reject.
InitC16 ==
    \E S \in StartBalances, A \in CreditAmounts :
        /\ dir = [e \in Emails |-> IF e = PayerA THEN 1 ELSE NoUid]
        /\ users = [u \in Uids |->
               IF u = 1
               THEN [UserData(1, PayerA, NoUid, SignupTime) EXCEPT !.balance = S]
               ELSE NoDoc]
        /\ nextUid = 2
        /\ signups = [s \in SignupSlots |->
               IF s = 1
               THEN [pc |-> "done", email |-> PayerA, referredBy |-> NoUid,
                     uid |-> 1, status |-> 201]
               ELSE IdleSignup]
        /\ hooks = [p \in HookSlots |->
               IF p = 1
               THEN Receive([FullBody(SuccessEvent, PayerA, A) EXCEPT !.evid = 1], Pending)
               ELSE IdleHook]
        /\ acts = 0
        /\ call = IdleCall
        /\ resp = NoResp
        /\ startBalance = [u \in Uids |-> IF u = 1 THEN S ELSE Num(0)]

NextC16 ==
    \/ \E p \in HookSlots, ok \in BOOLEAN : HookLookup(p, ok)
    \/ \E p \in HookSlots, ok \in BOOLEAN : HookRead(p, ok)
    \/ \E p \in HookSlots, ok \in BOOLEAN : HookCommit(p, ok)
    \/ \E p \in HookSlots : HookRespond(p)
    \/ \E u \in Uids, l \in Labels, t \in Times, ok \in BOOLEAN :
          Activity(u, l, t, ok)

SpecC16 == InitC16 /\ [][NextC16]_vars

\* ---------------------------------------------------------------- claims
Started(p) == hooks[p].pc # "idle"
Finished(p) == hooks[p].pc \in {"done", "threw"}
Malformed(req) ==
    \/ req.event = "undefined"
    \/ ~req.hasData
    \/ ~req.hasCustomer
    \/ ~req.hasAmount

\* C1: a notification delivered more than once with the same gateway event id
\* is credited at most once.
C1_Idempotence ==
    \A p \in HookSlots, q \in HookSlots :
        (p # q /\ Started(p) /\ Started(q)
           /\ hooks[p].req.evid = hooks[q].req.evid)
        => ~(hooks[p].committed /\ hooks[q].committed)

\* C2: once two concurrent credits of A and B to a user with balance S have
\* both finished, the balance is the number S + A/100 + B/100, whatever the
\* interleaving of the two handlers.
C2_NoLostUpdate ==
    (hooks[1].pc = "done" /\ hooks[2].pc = "done")
    => users[1].balance =
          NumAdd(NumAdd(startBalance[1], NumDiv(Num(hooks[1].req.amount), 100)),
                 NumDiv(Num(hooks[2].req.amount), 100))

\* What the transaction does give: the balance is that of the two credits
\* applied one after the other, in one of the two orders.
SerialOrders ==
    (hooks[1].pc = "done" /\ hooks[2].pc = "done")
    => LET a == NumDiv(Num(hooks[1].req.amount), 100)
           b == NumDiv(Num(hooks[2].req.amount), 100)
       IN users[1].balance \in {NumAdd(NumAdd(startBalance[1], a), b),
                                NumAdd(NumAdd(startBalance[1], b), a)}

\* C3: a notification whose signature does not verify is never credited and
\* never answered 200.
C3_RejectUnverified ==
    \A p \in HookSlots :
        (Started(p) /\ ~hooks[p].req.sigValid)
        => (~hooks[p].committed /\ hooks[p].status # 200)

\* C4: every webhook request whose signature verifies is answered 200 once
\* its handler has ended.
C4_AcknowledgeAlways ==
    \A p \in HookSlots :
        (Finished(p) /\ hooks[p].req.sigValid) => hooks[p].status = 200

\* C5: a malformed notification (no event, no data, no customer or no amount)
\* is answered with a 4xx status and is never credited.
C5_MalformedRejected ==
    \A p \in HookSlots :
        (Finished(p) /\ Malformed(hooks[p].req))
        => (hooks[p].status \in 400..499 /\ ~hooks[p].committed)

\* C6: a charge.success notification whose payer email has no account changes
\* no user record and no directory entry, starts no transaction, and is
\* answered 200.
C6_UnknownUserSafe ==
    [][\A p \in HookSlots :
         /\ (/\ hooks[p].pc = "lookup"
             /\ hooks'[p] # hooks[p]
             /\ dir[hooks[p].req.email] = NoUid)
            => (/\ hooks'[p].pc = "respond"
                /\ hooks'[p].uid = NoUid
                /\ users' = users
                /\ dir' = dir)
         /\ (/\ hooks[p].pc = "respond"
             /\ hooks[p].req.event = SuccessEvent
             /\ hooks[p].lookedUp
             /\ hooks[p].uid = NoUid
             /\ hooks'[p] # hooks[p])
            => (/\ hooks'[p].pc = "done"
                /\ hooks'[p].status = 200
                /\ ~hooks'[p].committed
                /\ users' = users
                /\ dir' = dir)]_vars

C6_Witness ==
    \E p \in HookSlots :
        /\ hooks[p].pc = "done"
        /\ hooks[p].req.event = SuccessEvent
        /\ hooks[p].lookedUp
        /\ hooks[p].uid = NoUid
        /\ hooks[p].status = 200
        /\ dir[hooks[p].req.email] = NoUid
        /\ \E u \in Uids : users[u].exists

\* C7: a notification whose event is not "charge.success" changes no user
\* record, makes no directory lookup, starts no transaction, and is answered
\* 200.
C7_NonSuccessInert ==
    [][\A p \in HookSlots :
         (hooks'[p] # hooks[p] /\ hooks'[p].req.event # SuccessEvent)
         => (/\ users' = users
             /\ hooks'[p].pc \in {"respond", "done"}
             /\ ~hooks'[p].lookedUp
             /\ ~hooks'[p].committed
             /\ hooks'[p].uid = NoUid
             /\ hooks'[p].pc = "done" => hooks'[p].status = 200)]_vars

C7_Witness ==
    \E p \in HookSlots :
        /\ hooks[p].pc = "done"
        /\ hooks[p].req.event = "charge.failed"
        /\ hooks[p].status = 200
        /\ dir[hooks[p].req.email] # NoUid
        /\ users[dir[hooks[p].req.email]].exists
        /\ users[dir[hooks[p].req.email]].balance = Num(0)

\* C8: an acknowledged charge.success notification for an existing account
\* has either been credited or left a record for manual reconciliation.
C8_NoSilentLoss ==
    \A p \in HookSlots :
        (/\ hooks[p].pc = "done"
         /\ hooks[p].status = 200
         /\ hooks[p].req.event = SuccessEvent
         /\ hooks[p].uid # NoUid)
        => (hooks[p].committed \/ ReconciliationRecords # {})

\* C9: the balance of an existing record changes only in the commit of a
\* charge.success webhook transaction for that record; no step of /signup,
\* /signin, /recharge, /activity or GET /user/:uid changes it or removes the
\* record.
C9_BalanceOnlyByCredit ==
    [][\A u \in Uids :
         (users[u].exists /\ (~users'[u].exists \/ users'[u].balance # users[u].balance))
         => \E p \in HookSlots :
               /\ hooks[p].pc = "commit"
               /\ hooks[p].req.event = SuccessEvent
               /\ hooks[p].uid = u
               /\ hooks'[p].committed
               /\ users'[u].exists
               /\ users'[u].balance = hooks[p].newBalance
               /\ UNCHANGED <<signups, acts, call, resp>>]_vars

C9_Witness ==
    /\ resp.op = "signin" /\ resp.status = 200
    /\ resp.user.exists /\ resp.user.balance = Num(2)
    /\ call.op = "recharge"
    /\ acts > 0
    /\ \A s \in SignupSlots : signups[s].pc = "done"
    /\ \E s \in SignupSlots : signups[s].status = 400
    /\ \E u \in Uids :
          /\ users[u].exists
          /\ users[u].balance = Num(4)
          /\ Len(users[u].dailyActivities) > 0

\* C10: every stored balance is a number >= 0.
C10_NonNegative ==
    \A u \in Uids :
        users[u].exists => (~users[u].balance.nan /\ ~users[u].balance.neg)

\* C11: signup stores balance 0; a committed credit of amount a, a multiple
\* of 100, sets the balance to b + a/100, b the stored balance, taken as 0
\* when it is not a number.
C11_CreditComputation ==
    [][/\ \A s \in SignupSlots :
            (signups[s].pc = "set" /\ signups'[s].status = 201)
            => users'[signups[s].uid].balance = Num(0)
       /\ \A p \in HookSlots :
            (/\ hooks[p].pc = "commit" /\ hooks'[p].committed
             /\ hooks[p].req.hasAmount /\ hooks[p].req.amount % 100 = 0)
            => LET u == hooks[p].uid
                   b == IF users[u].balance.nan THEN Num(0) ELSE users[u].balance
               IN users'[u].balance =
                     NumAdd(b, Num(hooks[p].req.amount \div 100))]_vars

C11_Witness ==
    \E p \in HookSlots, q \in HookSlots :
        /\ hooks[p].pc = "done" /\ hooks[p].committed /\ ~hooks[p].req.hasAmount
        /\ hooks[q].pc = "done" /\ hooks[q].committed /\ hooks[q].req.amount = 200
        /\ hooks[q].uid = hooks[p].uid
        /\ users[hooks[q].uid].balance = Num(2)

\* C12: every successful POST /activity appends exactly one entry to the end
\* of one user's dailyActivities and changes nothing else in the collection.
C12_ActivityAppends ==
    [][(acts' = acts + 1 /\ resp'.op = "activity" /\ resp'.status = 200)
       => \E u \in Uids, l \in Labels, t \in Times :
             /\ users[u].exists
             /\ users'[u] = [users[u] EXCEPT !.dailyActivities =
                                Append(@, [activity |-> l, timestamp |-> t])]
             /\ \A v \in Uids \ {u} : users'[v] = users[v]]_vars

\* C13: signup answers 201 with the directory entry and the fresh ledger
\* record in place; a failed directory creation (the email is taken, or
\* createUser rejects for another reason) answers 400 and touches neither
\* store; a failed ledger write answers 400 and leaves the directory entry
\* without a record; no record exists without a directory entry.
C13_SignupOutcome ==
    [][/\ \A s \in SignupSlots :
            /\ (signups'[s].status = 201 /\ signups[s].status # 201)
               => LET u == signups'[s].uid
                  IN /\ u # NoUid
                     /\ dir'[signups'[s].email] = u
                     /\ users'[u].exists
                     /\ users'[u].uid = u
                     /\ users'[u].email = signups'[s].email
                     /\ users'[u].balance = Num(0)
                     /\ users'[u].teamCount = 0
                     /\ users'[u].dailyActivities = <<>>
                     /\ users'[u].referralLink = <<"https://vest.com/ref/", u>>
            /\ (signups[s].pc = "idle" /\ signups'[s].status = 400)
               => (users' = users /\ dir' = dir /\ signups'[s].uid = NoUid)
            /\ (signups[s].pc = "set" /\ signups'[s].status = 400)
               => /\ users' = users
                  /\ dir'[signups[s].email] = signups[s].uid
                  /\ ~users'[signups[s].uid].exists
       /\ \A u \in Uids : users'[u].exists => \E e \in Emails : dir'[e] = u]_vars

\* One signup has answered 201; createUser of the other has rejected although
\* its email is free.
C13_Witness ==
    \E s \in SignupSlots, t \in SignupSlots :
        /\ signups[s].status = 201
        /\ users[signups[s].uid].exists
        /\ signups[t].status = 400
        /\ signups[t].uid = NoUid
        /\ dir[signups[t].email] = NoUid

\* C14: a step of a webhook handler changes at most the balance field of the
\* record of its payer; no step of any handler removes a record.
C14_CreditFrame ==
    [][/\ \A u \in Uids : users[u].exists => users'[u].exists
       /\ \A p \in HookSlots :
            hooks'[p].pc # hooks[p].pc
            => \A u \in Uids :
                  \/ users'[u] = users[u]
                  \/ /\ hooks[p].req.event = SuccessEvent
                     /\ u = dir[hooks[p].req.email]
                     /\ users[u].exists
                     /\ users'[u] = [users[u] EXCEPT !.balance = users'[u].balance]]_vars

C14_Witness ==
    \E p \in HookSlots, u \in Uids, v \in Uids :
        /\ u # v
        /\ hooks[p].pc = "done" /\ hooks[p].committed /\ hooks[p].uid = u
        /\ users[u].exists /\ users[u].balance = Num(2)
        /\ users[u].referredBy # NoUid
        /\ Len(users[u].dailyActivities) = 1
        /\ users[v].exists /\ users[v].balance = Num(0)

\* C15: a charge.success notification whose payer has a directory entry but
\* no ledger record ends its transaction at the read, writes nothing and is
\* answered 200; the signup that completes later stores balance 0.
C15_OrphanSafe ==
    [][/\ \A p \in HookSlots :
            /\ (hooks[p].pc = "read" /\ hooks'[p].pc # "read"
                   /\ ~users[hooks[p].uid].exists)
               => (/\ hooks'[p].pc = "respond"
                   /\ ~hooks'[p].committed
                   /\ users' = users)
            /\ (hooks[p].pc = "respond" /\ hooks'[p].pc # "respond"
                   /\ hooks[p].uid # NoUid /\ ~hooks[p].committed)
               => (/\ hooks'[p].pc = "done"
                   /\ hooks'[p].status = 200
                   /\ ~hooks'[p].committed
                   /\ users' = users)
       /\ \A s \in SignupSlots :
            (signups[s].pc = "set" /\ signups'[s].status = 201)
            => users'[signups[s].uid].balance = Num(0)]_vars

C15_Witness ==
    \E p \in HookSlots, s \in SignupSlots :
        /\ hooks[p].pc = "done" /\ hooks[p].status = 200
        /\ hooks[p].uid # NoUid /\ ~hooks[p].committed /\ hooks[p].attempts = 0
        /\ hooks[p].req.amount = 200
        /\ signups[s].uid = hooks[p].uid /\ signups[s].status = 201
        /\ users[hooks[p].uid].exists
        /\ users[hooks[p].uid].balance = Num(0)

\* C16 as stated: once a credit of a and an activity request for the same
\* user have both finished, the record holds the balance S + a/100 and the
\* new entry.
C16_CreditAndActivity ==
    (hooks[1].pc = "done" /\ resp.op = "activity" /\ resp.status = 200)
    => /\ users[1].balance =
             NumAdd(startBalance[1], NumDiv(Num(hooks[1].req.amount), 100))
       /\ Len(users[1].dailyActivities) \in 1..acts

\* C16, amended: once a credit of a and an activity request for the same user
\* have both finished, the record holds the new entry, and its balance is
\* S + a/100 when the transaction of the credit has committed and S when a
\* remote call of the credit has rejected, whatever the interleaving.
C16_NoClobber ==
    (hooks[1].pc = "done" /\ resp.op = "activity" /\ resp.status = 200)
    => /\ users[1].balance =
             IF hooks[1].committed
             THEN NumAdd(startBalance[1], NumDiv(Num(hooks[1].req.amount), 100))
             ELSE startBalance[1]
       /\ Len(users[1].dailyActivities) \in 1..acts

\* Both have finished and both effects are in the record.
C16_Witness ==
    /\ hooks[1].pc = "done" /\ hooks[1].committed /\ hooks[1].status = 200
    /\ resp.op = "activity" /\ resp.status = 200
    /\ acts = 1
    /\ Len(users[1].dailyActivities) = 1
    /\ users[1].balance # startBalance[1]
    /\ users[1].balance =
          NumAdd(startBalance[1], NumDiv(Num(hooks[1].req.amount), 100))

\* C17: a webhook handler that has answered 200 has ended: its transaction
\* has committed or failed and no step of it remains.
C17_AckAfterOutcome ==
    \A p \in HookSlots :
        hooks[p].status = 200
        => /\ hooks[p].pc = "done"
           /\ ~ENABLED (\/ \E ok \in BOOLEAN : HookLookup(p, ok)
                        \/ \E ok \in BOOLEAN : HookRead(p, ok)
                        \/ \E ok \in BOOLEAN : HookCommit(p, ok)
                        \/ HookRespond(p))

C17_Witness ==
    \E p \in HookSlots, q \in HookSlots :
        /\ hooks[p].status = 200 /\ hooks[p].committed
        /\ hooks[q].status = 200 /\ hooks[q].uid # NoUid /\ ~hooks[q].committed

\* C18: both steps of /recharge of X = k/100 leave every record as it is, and
\* the second posts 100 * X = k kobo to the gateway; the credit of a
\* notification confirming the amount of an accepted recharge raises the
\* balance by X.
C18_RechargeRoundTrip ==
    [][/\ (call' # call /\ (call.op = "recharge" \/ call'.op = "recharge"))
          => users' = users
       /\ (resp' # resp /\ resp'.op = "recharge") => users' = users
       /\ \A k \in RechargeKobo :
            (/\ call.op = "recharge" /\ call'.op # "recharge"
             /\ call.amount = NumDiv(Num(k), 100))
            => /\ resp'.op = "recharge"
               /\ resp'.status \in {200, 500}
               /\ resp'.kobo = Num(k)
       /\ \A p \in HookSlots, k \in RechargeKobo :
            (/\ resp.op = "recharge" /\ resp.status = 200 /\ resp.kobo = Num(k)
             /\ hooks[p].pc = "commit" /\ hooks'[p].committed
             /\ hooks[p].req.hasAmount /\ hooks[p].req.amount = k
             /\ ~users[hooks[p].uid].balance.nan)
            => users'[hooks[p].uid].balance
                  = NumAdd(users[hooks[p].uid].balance, NumDiv(Num(k), 100))]_vars
====
